---- MODULE Spec2Model ----
(***************************************************************************)
(* The snapshot edit-capture-and-preview pipeline of src/pages/index.tsx:  *)
(* getStaticProps (server-side resolution of the preview session against   *)
(* the S3 snapshot store), the Home component (client state, the share     *)
(* handler with its save guard, the two dialogs) and Content (the editable *)
(* regions).  The save / enter-preview / exit-preview endpoints and the    *)
(* Malleable component live outside src/ and are modelled from the spec.   *)
(*                                                                         *)
(* Text is a sequence of tokens: a token is either one of the characters   *)
(* JSON treats specially (quote, backslash, newline) or a run of           *)
(* characters that JSON leaves alone.                                      *)
(***************************************************************************)
EXTENDS Integers, Sequences, FiniteSets, TLC

\* Number of distinct snapshot identifiers (and so of stored snapshots).
MaxSnapshots == 2

----------------------------------------------------------------------------
(* Content: the editable regions, in document order *)

\* The id attribute of each Malleable of Content.
ContentIds ==
  << <<"title">>, <<"feature-1-emoji">>, <<"feature-1-text">>,
     <<"feature-2-emoji">>, <<"feature-2-text">>, <<"feature-3-emoji">>,
     <<"feature-3-text">>, <<"title-2">>, <<"explanation-1-inspect">>,
     <<"explanation-1-pre-curl">>, <<"explanation-1-pre-response">>,
     <<"explanation-2">>, <<"explanation-3">>, <<"explanation-4">> >>

\* The children (base text) of each Malleable of Content; the three emoji
\* are written by name.
ContentChildren ==
  << <<"My Static Site">>, <<"(high voltage)">>, <<"Blazing fast">>,
     <<"(satellite antenna)">>, <<"Always available">>, <<"(racing car)">>,
     <<"Lighthouse 100">>,
     <<"This demonstrates a static website generated using Next.js' new Static Site Generation (SSG). View the source on GitHub.">>,
     <<"To inspect the response from our edge network, run:">>,
     <<"curl -sI https://next-preview.vercel.app | grep x-vercel">>,
     <<"x-vercel-cache: HIT", "\n", "x-vercel-id: cle1::zzq7g-1604525989923-a33b3946ccee">>,
     <<"When people visit this site, the response always comes instantly from their nearest location.">>,
     <<"Unlike traditional static solutions, however, you can generate previews of edits that you can share with anyone you choose. To try it out, click the edit icon on the bottom right and edit the content. When you're done, click the share icon on the bottom right to generate a shareable preview URL.">>,
     <<"SSG and Preview Mode make Next.js the most optimal framework to integrate into your Headless CMS workflow. Learn more about the preview mode on our documentation.">> >>

\* The regions, by position in the document.
Regions == DOMAIN ContentIds

\* The regions the user types into: the title.
TypedRegions == {1}

\* What the user types into a region: text with the characters JSON must
\* escape (quote, backslash, newline) and with JSON's own punctuation.
EditTexts == { <<"{Say: ", "\"", "hi", "\"", ", [bye]} C:", "\\", "n", "\n">> }

----------------------------------------------------------------------------
(* JSON.stringify / JSON.parse on FieldEdit[] *)

\* Escape with the backslash left as it is.
RECURSIVE Escape_BackslashKept(_)
Escape_BackslashKept(s) ==
  IF s = <<>> THEN <<>>
  ELSE LET c == Head(s)
           e == IF c = "\"" THEN <<"\\", "\"">>
                ELSE IF c = "\n" THEN <<"\\", "n">>
                ELSE <<c>>
       IN  e \o Escape_BackslashKept(Tail(s))

\* JSON.stringify of one string's characters: quote, backslash and newline
\* are escaped, every other run is copied.
RECURSIVE Escape(_)
Escape(s) ==
  IF s = <<>> THEN <<>>
  ELSE LET c == Head(s)
           e == IF c = "\"" THEN <<"\\", "\"">>
                ELSE IF c = "\\" THEN <<"\\", "\\">>
                ELSE IF c = "\n" THEN <<"\\", "n">>
                ELSE <<c>>
       IN  e \o Escape(Tail(s))

\* JSON.stringify of a string.
StringifyString(s) == <<"\"">> \o Escape(s) \o <<"\"">>

\* JSON.stringify of one { id, innerText } object.
StringifyEdit(e) ==
  <<"{">> \o StringifyString(<<"id">>) \o <<":">> \o StringifyString(e.id)
          \o <<",">> \o StringifyString(<<"innerText">>) \o <<":">>
          \o StringifyString(e.innerText) \o <<"}">>

RECURSIVE StringifyItems(_)
StringifyItems(edits) ==
  IF edits = <<>> THEN <<>>
  ELSE IF Len(edits) = 1 THEN StringifyEdit(edits[1])
  ELSE StringifyEdit(edits[1]) \o <<",">> \o StringifyItems(Tail(edits))

\* JSON.stringify(persistContents).
JSONStringify(edits) == <<"[">> \o StringifyItems(edits) \o <<"]">>

NoParse == [ok |-> FALSE, val |-> <<>>, next |-> 0]

\* Reads a JSON string's characters from position i (just after the opening
\* quote) up to the closing quote; next is the position after it.
RECURSIVE ReadString(_, _, _)
ReadString(t, i, acc) ==
  IF i > Len(t) THEN NoParse
  ELSE IF t[i] = "\"" THEN [ok |-> TRUE, val |-> acc, next |-> i + 1]
  ELSE IF t[i] = "\n" THEN NoParse
  ELSE IF t[i] = "\\"
    THEN IF i + 1 > Len(t) THEN NoParse
         ELSE IF t[i + 1] \in {"\"", "\\"}
           THEN ReadString(t, i + 2, Append(acc, t[i + 1]))
         ELSE IF t[i + 1] = "n" THEN ReadString(t, i + 2, Append(acc, "\n"))
         ELSE NoParse
  ELSE ReadString(t, i + 1, Append(acc, t[i]))

\* A JSON string starting at position i.
ParseString(t, i) ==
  IF i <= Len(t) /\ t[i] = "\"" THEN ReadString(t, i + 1, <<>>) ELSE NoParse

\* The token c at position i.
Expect(t, i, c) == i <= Len(t) /\ t[i] = c

\* One { "id": ..., "innerText": ... } object starting at position i.
ParseEdit(t, i) ==
  IF ~Expect(t, i, "{") THEN NoParse
  ELSE LET k1 == ParseString(t, i + 1) IN
    IF ~(k1.ok /\ k1.val = <<"id">> /\ Expect(t, k1.next, ":")) THEN NoParse
    ELSE LET v1 == ParseString(t, k1.next + 1) IN
      IF ~(v1.ok /\ Expect(t, v1.next, ",")) THEN NoParse
      ELSE LET k2 == ParseString(t, v1.next + 1) IN
        IF ~(k2.ok /\ k2.val = <<"innerText">> /\ Expect(t, k2.next, ":"))
          THEN NoParse
        ELSE LET v2 == ParseString(t, k2.next + 1) IN
          IF ~(v2.ok /\ Expect(t, v2.next, "}")) THEN NoParse
          ELSE [ok |-> TRUE,
                val |-> [id |-> v1.val, innerText |-> v2.val],
                next |-> v2.next + 1]

\* The array's elements from position i (an element is expected there).
RECURSIVE ParseItems(_, _, _)
ParseItems(t, i, acc) ==
  LET e == ParseEdit(t, i) IN
  IF ~e.ok THEN NoParse
  ELSE IF Expect(t, e.next, ",") THEN ParseItems(t, e.next + 1, Append(acc, e.val))
  ELSE IF Expect(t, e.next, "]") /\ e.next = Len(t)
    THEN [ok |-> TRUE, val |-> Append(acc, e.val), next |-> e.next + 1]
  ELSE NoParse

\* JSON.parse(object.Body.toString()) on the FieldEdit[] grammar: ok is FALSE
\* where JSON.parse throws a SyntaxError.
JSONParse(t) ==
  IF ~Expect(t, 1, "[") THEN NoParse
  ELSE IF Expect(t, 2, "]") /\ Len(t) = 2 THEN [ok |-> TRUE, val |-> <<>>, next |-> 3]
  ELSE ParseItems(t, 2, <<>>)

----------------------------------------------------------------------------
(* Values *)

\* Snapshot identifiers the save endpoint can generate.
SnapshotIds == 1..MaxSnapshots

\* null / undefined where a snapshot id is expected.
NoId == 0

\* null where an Error is expected.
NoError == "null"

\* undefined where props.message is expected.
NoMessage == "undefined"

\* Key with the identifier left out of the key.
Key_Fixed(snapshotId) == <<NoId, ".json">>

\* The S3 object key of a snapshot: `${snapshotId}.json`.
Key(snapshotId) == <<snapshotId, ".json">>

\* The HTTP status getStaticProps tests for.
StatusForbidden == 403

\* The ways s3.getObject fails: the object is absent (NoSuchKey), access is
\* denied, or the store is unavailable.
NotFound == "NoSuchKey"
AccessDenied == "AccessDenied"
StoreUnavailable == "ServiceUnavailable"

\* e.statusCode of each failure.
StatusCode(code) ==
  CASE code = NotFound -> 404
    [] code = AccessDenied -> StatusForbidden
    [] code = StoreUnavailable -> 503

MsgNotExist == "The requested preview edit does not exist!"

MsgS3Error ==
  "An error has occurred while connecting to S3. Please refresh the page to try again."

VARIABLES
  store,              \* the S3 bucket: object key -> Body
  sent,               \* snapshot id -> the FieldEdit[] posted to /api/save for it
  session,            \* previewData.snapshotId of the preview cookie, NoId if none
  props,              \* the props the displayed page was rendered with
  render,             \* the getStaticProps call of the displayed page: its
                      \* context, its getObject calls and what they settled to
  dom,                \* innerText of each region of Content, in document order
  pristine,           \* no region was typed into since the page was rendered
  currentSnapshotId,  \* useState(null)
  isEdit,             \* useState(false)
  hasSaveRequest,     \* useRef(false)
  isSharingView,      \* useState(false)
  currentError,       \* useState<Error>(null)
  requests            \* fetch('/api/save') calls that have not settled

vars == <<store, sent, session, props, render, dom, pristine, currentSnapshotId,
          isEdit, hasSaveRequest, isSharingView, currentError, requests>>

serverVars == <<store, sent, session>>
pageVars == <<props, render, dom, pristine>>
homeVars == <<currentSnapshotId, isEdit, hasSaveRequest, isSharingView,
              currentError, requests>>

----------------------------------------------------------------------------
(* getStaticProps *)

\* What s3.getObject(...).promise() can settle to for a key: the object, or
\* a failure.  An absent key is reported as NoSuchKey or, where the caller
\* may not list the bucket, as AccessDenied.
GetObject(s, key) ==
  (IF key \in DOMAIN s THEN {[code |-> "ok", Body |-> s[key]]} ELSE {})
  \cup {[code |-> c, Body |-> <<>>] :
          c \in IF key \in DOMAIN s THEN {AccessDenied, StoreUnavailable}
                ELSE {NotFound, AccessDenied, StoreUnavailable}}

\* The message of the catch branch.
ErrorMessage(statusCode) ==
  IF statusCode = StatusForbidden THEN MsgNotExist ELSE MsgS3Error

NormalProps ==
  [isPreview |-> FALSE, hasError |-> FALSE, snapshotId |-> NoId,
   contents |-> <<>>, message |-> NoMessage]

\* ErrorProps with the catch branch still reporting the preview, with no
\* contents loaded.
ErrorProps_InPreview(statusCode) ==
  [isPreview |-> TRUE, hasError |-> TRUE, snapshotId |-> NoId,
   contents |-> <<>>, message |-> ErrorMessage(statusCode)]

\* ErrorProps falling back to the canonical page.
ErrorProps_Canonical(statusCode) == NormalProps

ErrorProps(statusCode) ==
  [isPreview |-> FALSE, hasError |-> TRUE, snapshotId |-> NoId,
   contents |-> <<>>, message |-> ErrorMessage(statusCode)]

PreviewProps(snapshotId, contents) ==
  [isPreview |-> TRUE, hasError |-> FALSE, snapshotId |-> snapshotId,
   contents |-> contents, message |-> NoMessage]

\* getStaticProps({preview, previewData}) where object is what getObject
\* settled to (ignored unless preview).
getStaticProps(preview, snapshotId, object) ==
  IF preview
    THEN IF object.code = "ok"
           THEN LET parsed == JSONParse(object.Body) IN
                IF parsed.ok THEN PreviewProps(snapshotId, parsed.val)
                ELSE ErrorProps(-1)  \* a SyntaxError has no statusCode
           ELSE ErrorProps(StatusCode(object.code))
    ELSE NormalProps

\* StoreReads with getObject called before preview is tested.
StoreReads_Unconditional(preview) == 1

\* The number of getObject calls getStaticProps makes.
StoreReads(preview) == IF preview THEN 1 ELSE 0

----------------------------------------------------------------------------
(* Home and Content *)

\* HomeEdits with the loaded contents dropped.
HomeEdits_Dropped(p) == <<>>

\* const edits = props.isPreview ? props.contents : [];
HomeEdits(p) == IF p.isPreview THEN p.contents ELSE <<>>

\* The overlay an edit sequence resolves to: id -> text, the last entry of an
\* id winning.
RECURSIVE Overlay(_)
Overlay(edits) ==
  IF edits = <<>> THEN <<>>
  ELSE LET n == Len(edits)
           rest == Overlay(SubSeq(edits, 1, n - 1))
       IN  [id \in (DOMAIN rest) \cup {edits[n].id} |->
              IF id = edits[n].id THEN edits[n].innerText ELSE rest[id]]

\* The text the edits give the region id, the last entry of the id winning;
\* children where they have no entry for it.
RECURSIVE EditedText(_, _, _)
EditedText(edits, id, children) ==
  IF edits = <<>> THEN children
  ELSE IF edits[Len(edits)].id = id THEN edits[Len(edits)].innerText
  ELSE EditedText(SubSeq(edits, 1, Len(edits) - 1), id, children)

\* Malleable: the text of region i given the edits.
Malleable(i, edits) == EditedText(edits, ContentIds[i], ContentChildren[i])

\* Content: the text of every region; nothing when the error page is shown.
Content(p) ==
  IF p.hasError THEN <<>>
  ELSE [i \in Regions |-> Malleable(i, HomeEdits(p))]

\* PreviewIndicator shown on isPreview alone.
PreviewIndicator_PreviewOnly(p) == p.isPreview

\* {(props.isPreview || props.hasError) && <a href="/api/exit">...}
PreviewIndicator(p) == p.isPreview \/ p.hasError

\* What Home displays besides the regions.
View ==
  [errorDialog |-> currentError # NoError,
   shareLinkDialog |-> currentSnapshotId # NoId,
   shareLinkId |-> currentSnapshotId,
   previewIndicator |-> PreviewIndicator(props),
   errorPage |-> props.hasError,
   reason |-> IF props.hasError THEN props.message ELSE NoMessage,
   snapshotControls |-> isEdit,
   isSharing |-> isSharingView]

----------------------------------------------------------------------------
(* The save endpoint and the preview session (outside src/) *)

\* put(key, bytes) on the blob store.
PutObject(s, key, body) ==
  [k \in (DOMAIN s) \cup {key} |-> IF k = key THEN body ELSE s[k]]

\* The identifier the save endpoint generates next: one it has not generated
\* yet (identifiers are opaque, so they are taken in a fixed order).
FreshIds ==
  LET unused == SnapshotIds \ DOMAIN sent
  IN  {i \in unused : \A j \in unused : i <= j}

\* The save endpoint on a request, generating snapshotId: the edits parsed
\* from the body are serialized and written under the identifier's key.
SaveSnapshot(snapshotId, request) ==
  LET parsed == JSONParse(request.body) IN
  /\ parsed.ok
  /\ store' = PutObject(store, Key(snapshotId), JSONStringify(parsed.val))
  /\ sent' = [i \in (DOMAIN sent) \cup {snapshotId} |->
                IF i = snapshotId THEN request.persistContents ELSE sent[i]]

\* An edit sequence another client of the save endpoint posts: an entry for
\* an id that is no region of Content, and an entry for the first region only.
ForeignEdits ==
  << [id |-> <<"no-such-region">>, innerText |-> <<"Zed">>],
     [id |-> ContentIds[1], innerText |-> <<"Hello, ", "\"", "{world}", "\"">>] >>

\* Another browsing context saves a snapshot.
ForeignSave ==
  /\ \E id \in FreshIds :
       SaveSnapshot(id, [persistContents |-> ForeignEdits,
                         body |-> JSONStringify(ForeignEdits)])
  /\ UNCHANGED <<session, pageVars, homeVars>>

\* The enter-preview endpoint: binds the session to snapshotId, whether or
\* not such a snapshot exists; a second enter replaces the binding.
EnterPreview ==
  /\ \E id \in SnapshotIds : session' = id
  /\ UNCHANGED <<store, sent, pageVars, homeVars>>

\* The exit-preview endpoint (/api/exit): clears the session.
ExitPreview ==
  /\ session # NoId
  /\ session' = NoId
  /\ UNCHANGED <<store, sent, pageVars, homeVars>>

----------------------------------------------------------------------------
(* A page load: getStaticProps, then Home mounts with its initial state *)

HomeInit ==
  /\ currentSnapshotId = NoId
  /\ isEdit = FALSE
  /\ hasSaveRequest = FALSE
  /\ isSharingView = FALSE
  /\ currentError = NoError
  /\ requests = <<>>

\* Home mounts: every useState / useRef takes its initial value.
HomeMount ==
  /\ currentSnapshotId' = NoId
  /\ isEdit' = FALSE
  /\ hasSaveRequest' = FALSE
  /\ isSharingView' = FALSE
  /\ currentError' = NoError
  /\ requests' = <<>>

\* Render leaving preview mode when the load fails.
Render_ExitOnError ==
  /\ \E object \in GetObject(store, Key(session)) :
       /\ props' = getStaticProps(session # NoId, session, object)
       /\ render' = [preview |-> session # NoId,
                     snapshotId |-> session,
                     reads |-> StoreReads(session # NoId),
                     code |-> IF StoreReads(session # NoId) = 0 THEN "none"
                              ELSE object.code]
  /\ dom' = Content(props')
  /\ pristine' = TRUE
  /\ HomeMount
  /\ session' = IF props'.hasError THEN NoId ELSE session
  /\ UNCHANGED <<store, sent>>

\* The page is requested with the session cookie; object is what getObject
\* settles to.  The document is replaced: Home's state starts afresh and the
\* fetch of the previous document is aborted.
Render ==
  /\ \E object \in GetObject(store, Key(session)) :
       /\ props' = getStaticProps(session # NoId, session, object)
       /\ render' = [preview |-> session # NoId,
                     snapshotId |-> session,
                     reads |-> StoreReads(session # NoId),
                     code |-> IF StoreReads(session # NoId) = 0 THEN "none"
                              ELSE object.code]
  /\ dom' = Content(props')
  /\ pristine' = TRUE
  /\ HomeMount
  /\ UNCHANGED <<store, sent, session>>

----------------------------------------------------------------------------
(* Home's handlers *)

\* toggleEdit leaving edit mode as a reset of the page: the dialogs are closed
\* with it.
toggleEdit_ClosesDialogs ==
  /\ isEdit' = ~isEdit
  /\ currentSnapshotId' = IF isEdit THEN NoId ELSE currentSnapshotId
  /\ currentError' = IF isEdit THEN NoError ELSE currentError
  /\ UNCHANGED <<serverVars, pageVars, hasSaveRequest, isSharingView, requests>>

\* toggleEdit with Cancel abandoning the save in flight: the guard and the
\* busy flag are released and the response is no longer awaited.
toggleEdit_AbandonsSave ==
  /\ isEdit' = ~isEdit
  /\ hasSaveRequest' = IF isEdit THEN FALSE ELSE hasSaveRequest
  /\ isSharingView' = IF isEdit THEN FALSE ELSE isSharingView
  /\ requests' = IF isEdit THEN <<>> ELSE requests
  /\ UNCHANGED <<serverVars, pageVars, currentSnapshotId, currentError>>

\* toggleEdit: the Edit button, or Cancel of the Snapshot controls.
toggleEdit ==
  /\ isEdit' = ~isEdit
  /\ UNCHANGED <<serverVars, pageVars, currentSnapshotId, hasSaveRequest,
                 isSharingView, currentError, requests>>

\* The user types text into a region that is contenteditable.
TypeText ==
  /\ isEdit
  /\ \E i \in (DOMAIN dom) \cap TypedRegions, t \in EditTexts :
       /\ dom[i] # t
       /\ dom' = [dom EXCEPT ![i] = t]
  /\ pristine' = FALSE
  /\ UNCHANGED <<serverVars, props, render, homeVars>>

\* Capture with document.querySelector: the first matching region only.
Capture_FirstOnly ==
  IF isEdit /\ dom # <<>>
    THEN << [id |-> ContentIds[1], innerText |-> dom[1]] >>
    ELSE <<>>

\* document.querySelectorAll('[id] > [contenteditable=true]') mapped to
\* { id, innerText }: the regions are contenteditable while isEdit.
Capture ==
  IF isEdit
    THEN [i \in DOMAIN dom |-> [id |-> ContentIds[i], innerText |-> dom[i]]]
    ELSE <<>>

\* ShareGuard reading the isSharingView state that share's closure captured
\* on the first render (its dependency list is empty): always false.
ShareGuard_StaleState == FALSE

\* if (hasSaveRequest.current) return;
ShareGuard == hasSaveRequest

\* setSharing updating the view state only, the ref left as it is.
setSharing_ViewOnly(sharing) ==
  /\ hasSaveRequest' = hasSaveRequest
  /\ isSharingView' = sharing

\* setSharing(sharing)
setSharing(sharing) ==
  /\ hasSaveRequest' = sharing
  /\ isSharingView' = sharing

\* share: the Share button of the Snapshot controls.
share ==
  /\ isEdit
  /\ IF ShareGuard
       THEN UNCHANGED <<hasSaveRequest, isSharingView, requests>>
       ELSE /\ setSharing(TRUE)
            /\ requests' = Append(requests,
                                  [persistContents |-> Capture,
                                   body |-> JSONStringify(Capture)])
  /\ UNCHANGED <<serverVars, pageVars, currentSnapshotId, isEdit, currentError>>

\* What fetch('/api/save') settles to.
ResponseKinds == {"ok", "not_ok", "network_failure", "malformed_body"}

\* Settled with the guard cleared in the success handler, not in .finally.
Settled_ClearedOnSuccess(kind, snapshotId) ==
  /\ currentSnapshotId' = IF kind = "ok" THEN snapshotId ELSE currentSnapshotId
  /\ currentError' =
       CASE kind = "ok" -> currentError
         [] kind = "not_ok" -> "Error: StoreUnavailable"
         [] kind = "network_failure" -> "TypeError: Failed to fetch"
         [] kind = "malformed_body" -> "SyntaxError: Unexpected end of JSON input"
  /\ setSharing(kind # "ok")

\* Settled without the rejection on a non-success response: the chain goes on
\* to the success handler with a body that carries no snapshot id.
Settled_NotOkSwallowed(kind, snapshotId) ==
  /\ currentSnapshotId' =
       CASE kind = "ok" -> snapshotId
         [] kind = "not_ok" -> NoId
         [] OTHER -> currentSnapshotId
  /\ currentError' =
       CASE kind \in {"ok", "not_ok"} -> currentError
         [] kind = "network_failure" -> "TypeError: Failed to fetch"
         [] kind = "malformed_body" -> "SyntaxError: Unexpected end of JSON input"
  /\ setSharing(FALSE)

\* Settled with each outcome closing the other dialog: success clears the
\* error, failure clears the snapshot id.
Settled_OutcomeResetsOther(kind, snapshotId) ==
  /\ currentSnapshotId' = IF kind = "ok" THEN snapshotId ELSE NoId
  /\ currentError' =
       CASE kind = "ok" -> NoError
         [] kind = "not_ok" -> "Error: StoreUnavailable"
         [] kind = "network_failure" -> "TypeError: Failed to fetch"
         [] kind = "malformed_body" -> "SyntaxError: Unexpected end of JSON input"
  /\ setSharing(FALSE)

\* The promise chain of share on a response: .then(res => ...) fulfils with
\* the parsed body or rejects, .then sets the snapshot id, .catch sets the
\* error, .finally clears the guard.
Settled(kind, snapshotId) ==
  /\ currentSnapshotId' = IF kind = "ok" THEN snapshotId ELSE currentSnapshotId
  /\ currentError' =
       CASE kind = "ok" -> currentError
         [] kind = "not_ok" -> "Error: StoreUnavailable"
         [] kind = "network_failure" -> "TypeError: Failed to fetch"
         [] kind = "malformed_body" -> "SyntaxError: Unexpected end of JSON input"
  /\ setSharing(FALSE)

\* The outstanding request reaches the save endpoint and its response
\* settles the fetch: the snapshot is stored and its id returned, or the
\* store is unavailable and a non-success response carries the error text.
SettleOk ==
  /\ requests # <<>>
  /\ \E id \in FreshIds :
       /\ SaveSnapshot(id, Head(requests))
       /\ Settled("ok", id)
  /\ requests' = Tail(requests)
  /\ UNCHANGED <<session, pageVars, isEdit>>

\* The request fails: a non-success response, a network failure, or a
\* success response whose body does not parse.
SettleFailure ==
  /\ requests # <<>>
  /\ \E kind \in ResponseKinds \ {"ok"} : Settled(kind, NoId)
  /\ requests' = Tail(requests)
  /\ UNCHANGED <<serverVars, pageVars, isEdit>>

\* clearSnapshot dismissing the error dialog along with the share link.
clearSnapshot_ClearsError ==
  /\ currentSnapshotId # NoId
  /\ currentSnapshotId' = NoId
  /\ currentError' = NoError
  /\ UNCHANGED <<serverVars, pageVars, isEdit, hasSaveRequest, isSharingView,
                 requests>>

\* clearSnapshot: exit of the share-link dialog.
clearSnapshot ==
  /\ currentSnapshotId # NoId
  /\ currentSnapshotId' = NoId
  /\ UNCHANGED <<serverVars, pageVars, isEdit, hasSaveRequest, isSharingView,
                 currentError, requests>>

\* onClearError: exit of the error dialog.
onClearError ==
  /\ currentError # NoError
  /\ currentError' = NoError
  /\ UNCHANGED <<serverVars, pageVars, currentSnapshotId, isEdit,
                 hasSaveRequest, isSharingView, requests>>

----------------------------------------------------------------------------
(* The specification *)

Init ==
  /\ store = [k \in {} |-> <<>>]
  /\ sent = [i \in {} |-> <<>>]
  /\ session = NoId
  /\ props = NormalProps
  /\ render = [preview |-> FALSE, snapshotId |-> NoId, reads |-> 0,
               code |-> "none"]
  /\ dom = Content(NormalProps)
  /\ pristine = TRUE
  /\ HomeInit

Next ==
  \/ ForeignSave
  \/ EnterPreview
  \/ ExitPreview
  \/ Render
  \/ toggleEdit
  \/ TypeText
  \/ share
  \/ SettleOk
  \/ SettleFailure
  \/ clearSnapshot
  \/ onClearError

Spec == Init /\ [][Next]_vars

----------------------------------------------------------------------------
(* Properties *)

\* C1: at most one save request is outstanding at any time, whatever the
\* sequence of share triggers, toggles, dismissals and settlements: a share
\* trigger while a save has not settled issues no second request (and so no
\* second dialog, a dialog being raised only by a settlement).
C1_SingleSaveInFlight ==
  [][/\ Len(requests') <= 1
     /\ (requests # <<>> /\ share) =>
          UNCHANGED <<requests, currentSnapshotId, currentError, View>>]_vars

\* C1 witness: the Share button is live while a save is outstanding, after a
\* failed save whose error dialog was not dismissed.
C1_ShareLiveWhileInFlight ==
  /\ Len(requests) = 1
  /\ isEdit
  /\ currentError # NoError

\* C2: the guard is set by the step that issues a save request and cleared
\* by the step that settles it, on the success path and on every failure
\* path; so with no request outstanding the guard is clear and the next
\* share trigger issues a request.
C2_GuardFollowsRequest ==
  [][/\ Len(requests') > Len(requests) => hasSaveRequest'
     /\ Len(requests') < Len(requests) => ~hasSaveRequest'
     /\ (requests = <<>> /\ share) => Len(requests') = 1]_vars

\* C2 witness: a save is outstanding that was issued after a save failed on
\* a malformed response body.
C2_RetryAfterFailure ==
  /\ requests # <<>>
  /\ currentError = "SyntaxError: Unexpected end of JSON input"

\* The error-page variant: no region of Content is displayed, no edit is
\* merged, the fixed heading and the reason are.
ErrorPageShown ==
  /\ View.errorPage
  /\ View.reason \in {MsgNotExist, MsgS3Error}
  /\ dom = <<>>
  /\ HomeEdits(props) = <<>>

\* C3: a page rendered under a preview session whose snapshot id resolves to
\* no stored object, or whose load failed for any reason, is the error-page
\* variant, never the canonical content.
C3_MissingSnapshotIsolation ==
  (render.preview /\ (render.code # "ok" \/ Key(render.snapshotId) \notin DOMAIN store))
    => ErrorPageShown /\ dom # Content(NormalProps)

\* C3 witness: the displayed page was rendered for a session whose snapshot
\* does not exist, while another snapshot does.
C3_PreviewOfMissingSnapshot ==
  /\ render.preview
  /\ Key(render.snapshotId) \notin DOMAIN store
  /\ DOMAIN store # {}

\* C4: a load failing with NotFound or AccessDenied shows the "does not
\* exist" message, a load failing with StoreUnavailable shows the "retry"
\* message.
C4_ErrorMessageClasses ==
  /\ render.code \in {NotFound, AccessDenied} => props.message = MsgNotExist
  /\ render.code = StoreUnavailable => props.message = MsgS3Error

\* C5: a page rendered under a preview session shows the preview indicator,
\* on a successful load and on the error page alike; a page rendered without
\* a session does not.
C5_PreviewIndicator == View.previewIndicator <=> render.preview

\* C5 witness: the error page, with the indicator.
C5_IndicatorOnErrorPage ==
  /\ render.preview
  /\ View.errorPage
  /\ View.previewIndicator

\* C6: when the snapshot a save returned is previewed, the contents
\* delivered to the renderer resolve to the same id -> text mapping as the
\* edit sequence the saving client captured and sent.
C6_SaveLoadRoundTrip ==
  props.isPreview =>
    /\ props.snapshotId \in DOMAIN sent
    /\ Overlay(props.contents) = Overlay(sent[props.snapshotId])

\* C6 witness: the title typed by the user, with its quotes, backslash and
\* newline, came back through save and load and is displayed.
C6_TypedTitleRoundTripped ==
  /\ props.isPreview
  /\ pristine
  /\ dom[1] \in EditTexts
  /\ sent[props.snapshotId][1].innerText = dom[1]

\* The text the spec's merge gives region i under the overlay o.
MergedText(i, o) ==
  IF ContentIds[i] \in DOMAIN o THEN o[ContentIds[i]] ELSE ContentChildren[i]

\* C7: in a successful preview render every region with an entry in the
\* loaded overlay shows the overlay's text, every region without one shows
\* its base text, and entries for ids of no region change nothing.
C7_MergeCorrectness ==
  (props.isPreview /\ pristine) =>
    LET o == Overlay(props.contents)
    IN  dom = [i \in Regions |-> MergedText(i, o)]

\* C7 witness: a preview of an overlay that has an entry for the title, none
\* for the next region, and an entry for an id of no region.
C7_PartialOverlayWithUnknownId ==
  /\ props.isPreview
  /\ pristine
  /\ dom[1] # ContentChildren[1]
  /\ ContentIds[2] \notin DOMAIN Overlay(props.contents)
  /\ \E id \in DOMAIN Overlay(props.contents) :
       \A i \in Regions : ContentIds[i] # id

\* C8: a render without a preview session reads nothing from the store and
\* substitutes no edit; every render reads the store at most once.
C8_CanonicalPathAndSingleRead ==
  /\ render.reads <= 1
  /\ ~render.preview =>
       /\ render.reads = 0
       /\ HomeEdits(props) = <<>>
       /\ ~View.errorPage
       /\ pristine => dom = [i \in Regions |-> ContentChildren[i]]

\* C8 witness: the canonical page, rendered for a context without a session
\* after the user typed a title and saved it (the typed text is gone from
\* the page, so the page was rendered since).
C8_CanonicalRenderAfterSave ==
  /\ ~render.preview
  /\ pristine
  /\ render.reads = 0
  /\ \E id \in DOMAIN sent :
       sent[id] # <<>> /\ sent[id][1].innerText \in EditTexts

\* The edit sequence a load of snapshotId returns from the store s.
Load(s, snapshotId) ==
  getStaticProps(TRUE, snapshotId,
                 [code |-> "ok", Body |-> s[Key(snapshotId)]]).contents

\* C9: no step (save, render, enter, exit, dialog action) changes what a
\* load of a stored snapshot id returns: any two loads of the id return the
\* same edit sequence.
C9_IdempotentLoad ==
  [][store' # store =>
       \A id \in SnapshotIds :
         Key(id) \in DOMAIN store =>
           /\ Key(id) \in DOMAIN store'
           /\ Load(store', id) = Load(store, id)]_vars

\* C9 witness: a snapshot is displayed as loaded, and a snapshot of other
\* contents is stored beside it.
C9_LoadedBesideAnotherSnapshot ==
  /\ props.isPreview
  /\ props.contents = Load(store, props.snapshotId)
  /\ \E id \in SnapshotIds :
       /\ Key(id) \in DOMAIN store
       /\ Load(store, id) # props.contents

\* C10: a render (normal, preview or error) leaves the snapshot store and
\* the preview session as they were.
C10_RenderIsReadOnly == [][UNCHANGED <<store, sent, session>> \/ ~Render]_vars

\* C10 witness: the error page was rendered, and the session it was rendered
\* for is still bound and the store still holds its snapshots.
C10_SessionKeptAfterErrorPage ==
  /\ props.hasError
  /\ session # NoId
  /\ session = render.snapshotId
  /\ DOMAIN store # {}

\* C11: the share-link dialog comes up, or changes the id it displays, only
\* in the step that settles a save request with success, and it displays the
\* identifier generated for the edits that request sent; dismissing it clears
\* the displayed id and leaves the stored snapshots, the error, the guard and
\* the edit mode as they were.
C11_ShareLinkDialog ==
  [][/\ (currentSnapshotId' # currentSnapshotId /\ View'.shareLinkDialog) =>
          /\ requests # <<>>
          /\ requests' = Tail(requests)
          /\ View'.shareLinkId \in (DOMAIN sent') \ (DOMAIN sent)
          /\ Key(View'.shareLinkId) \in DOMAIN store'
          /\ sent'[View'.shareLinkId] = Head(requests).persistContents
     /\ clearSnapshot =>
          /\ ~View'.shareLinkDialog
          /\ UNCHANGED <<store, sent, currentError, hasSaveRequest,
                         isSharingView, isEdit, requests>>]_vars

\* C11 witness: the share-link dialog was dismissed (the snapshot this page
\* saved is stored, its id no longer displayed) while the error of an earlier
\* failure is displayed and the page is in edit mode.
C11_DismissedBesideError ==
  /\ ~View.shareLinkDialog
  /\ View.errorDialog
  /\ isEdit
  /\ ~pristine
  /\ requests = <<>>
  /\ \E id \in DOMAIN sent :
       sent[id] # <<>> /\ sent[id][1].innerText \in EditTexts

\* C12: a save request that fails (network failure, non-success response, or
\* a body that does not parse) leaves the error dialog displayed with that
\* failure; no other step raises the dialog or changes the error it shows;
\* dismissing the dialog clears the error, sends nothing and leaves the guard
\* and the stored snapshots alone.
C12_ErrorDialog ==
  [][/\ (Len(requests') < Len(requests) /\ SettleFailure) =>
          /\ View'.errorDialog
          /\ currentError' \in {"Error: StoreUnavailable",
                                "TypeError: Failed to fetch",
                                "SyntaxError: Unexpected end of JSON input"}
     /\ (currentError' # currentError /\ View'.errorDialog) =>
          /\ requests # <<>>
          /\ requests' = Tail(requests)
          /\ UNCHANGED <<store, sent, currentSnapshotId>>
     /\ onClearError =>
          /\ ~View'.errorDialog
          /\ UNCHANGED <<store, sent, requests, hasSaveRequest, isSharingView,
                         currentSnapshotId, isEdit>>]_vars

\* C12 witness: the first save of an edited page failed on the network; the
\* error dialog shows the failure, nothing was stored and the guard is free.
C12_NetworkFailureShown ==
  /\ View.errorDialog
  /\ currentError = "TypeError: Failed to fetch"
  /\ ~View.shareLinkDialog
  /\ ~hasSaveRequest
  /\ requests = <<>>
  /\ ~pristine
  /\ DOMAIN store = {}

\* C13: toggling the edit mode flips the flag and nothing else: the overlay
\* edits of the render, the displayed snapshot id, the error, the save guard
\* and the busy flag stay as they were, no save request is sent or dropped
\* and nothing is stored.
C13_ToggleEditFrame ==
  [][toggleEdit =>
       /\ isEdit' = ~isEdit
       /\ View'.snapshotControls = ~View.snapshotControls
       /\ HomeEdits(props') = HomeEdits(props)
       /\ UNCHANGED <<currentSnapshotId, currentError, hasSaveRequest,
                      isSharingView, requests, store, sent>>]_vars

\* C13 witness: edit mode was left with both dialogs displayed over a preview
\* render whose overlay carries edits.
C13_ToggledOffUnderDialogs ==
  /\ ~isEdit
  /\ View.errorDialog
  /\ View.shareLinkDialog
  /\ props.isPreview
  /\ HomeEdits(props) # <<>>

\* C14: the list a save request sends, and the JSON text of its body, hold
\* in document order one field edit per region the page displays as editable
\* when share runs, with the id of the region's container and the text the
\* region holds then, and nothing else; an error page, which displays no
\* region, sends the empty list.
C14_CaptureTotal ==
  [][Len(requests') > Len(requests) =>
       LET shown == [i \in DOMAIN dom |->
                       [id |-> ContentIds[i], innerText |-> dom[i]]]
           sentReq == requests'[Len(requests')]
       IN  /\ isEdit
           /\ sentReq.persistContents = shown
           /\ sentReq.body = JSONStringify(shown)
           /\ View.errorPage => sentReq.body = <<"[", "]">>]_vars

\* C14 witness: a request in flight carries all the regions of Content, the
\* title with the text typed into it and the others with their own text.
C14_AllRegionsCaptured ==
  /\ Len(requests) = 1
  /\ Len(requests[1].persistContents) = Len(ContentIds)
  /\ requests[1].persistContents[1].innerText \in EditTexts
  /\ requests[1].persistContents[2].innerText = dom[2]
  /\ requests[1].body = JSONStringify(requests[1].persistContents)

C16_SettlementSetsOne ==
  [][Len(requests') < Len(requests) =>
       /\ SettleOk =>
            /\ View'.shareLinkDialog
            /\ currentError' = currentError
       /\ SettleFailure =>
            /\ View'.errorDialog
            /\ currentSnapshotId' = currentSnapshotId]_vars

\* C16 witness: both dialogs are displayed at once after two settled saves,
\* the failure's error and the success's share link, neither cleared by the
\* other.
C16_BothResultsDisplayed ==
  /\ View.errorDialog
  /\ View.shareLinkDialog
  /\ requests = <<>>
  /\ ~hasSaveRequest
  /\ currentSnapshotId \in DOMAIN sent

\* C17: within one mounted page, leaving edit mode while a save request is in
\* flight keeps the request and the guard; with edit mode left the request
\* can still settle either way, its settlement raises the share-link dialog
\* or the error dialog, and the guard is released in the step that settles
\* the request and in no other step of the page (a page load mounts a new
\* page, whose guard starts free).
C17_CancelKeepsSaveInFlight ==
  [][/\ (requests # <<>> /\ isEdit /\ toggleEdit) =>
          /\ ~isEdit'
          /\ requests' = requests
          /\ hasSaveRequest'
     /\ (requests # <<>> /\ ~isEdit) => ENABLED SettleFailure
     /\ (requests # <<>> /\ ~isEdit /\ Len(requests') < Len(requests)) =>
          /\ SettleOk => View'.shareLinkDialog /\ ~hasSaveRequest'
          /\ SettleFailure => View'.errorDialog /\ ~hasSaveRequest'
     /\ (hasSaveRequest /\ ~hasSaveRequest') =>
          \/ requests # <<>> /\ requests' = Tail(requests)
          \/ Render]_vars

\* C17 witness: edit mode was left with the request of a share still in
\* flight: the Snapshot controls are gone, the guard is held.
C17_CancelledWhileInFlight ==
  /\ ~View.snapshotControls
  /\ Len(requests) = 1
  /\ hasSaveRequest
  /\ ~View.errorDialog
  /\ ~View.shareLinkDialog

\* The three outcomes of a render, as shapes of the props it returns.
NormalOutcome ==
  /\ ~props.isPreview
  /\ ~props.hasError
  /\ props.snapshotId = NoId
  /\ props.contents = <<>>
  /\ props.message = NoMessage

PreviewOutcome ==
  /\ props.isPreview
  /\ ~props.hasError
  /\ props.snapshotId = render.snapshotId
  /\ Key(props.snapshotId) \in DOMAIN store
  /\ props.contents = JSONParse(store[Key(props.snapshotId)]).val
  /\ props.message = NoMessage

ErrorOutcome ==
  /\ props.hasError
  /\ ~props.isPreview
  /\ props.message \in {MsgNotExist, MsgS3Error}
  /\ props.snapshotId = NoId
  /\ props.contents = <<>>

\* C18: the props of the displayed render have exactly one of the three
\* shapes: normal, preview or error; the overlay handed to Content is empty
\* whenever the error page is displayed; the error outcome occurs only for a
\* render made with a preview session, and the normal outcome only without.
C18_RenderOutcomes ==
  /\ Cardinality({o \in {"normal", "preview", "error"} :
                    \/ o = "normal" /\ NormalOutcome
                    \/ o = "preview" /\ PreviewOutcome
                    \/ o = "error" /\ ErrorOutcome}) = 1
  /\ View.errorPage => HomeEdits(props) = <<>> /\ dom = <<>>
  /\ ErrorOutcome => render.preview
  /\ NormalOutcome <=> ~render.preview

\* C18 witness: the error outcome for a snapshot that is stored and holds
\* edits: the read failed, the render carries the message and no overlay.
C18_ErrorOutcomeOverStoredEdits ==
  /\ ErrorOutcome
  /\ render.preview
  /\ Key(render.snapshotId) \in DOMAIN store
  /\ JSONParse(store[Key(render.snapshotId)]).val # <<>>

====
